---------------------------- MODULE Spec2Model ----------------------------
(***************************************************************************)
(* Model of the core of src/NewPythonProject/app.py: calculate_entropy,    *)
(* estimate_crack_time, check_password_strength, generate_password and     *)
(* check_common_breach.                                                    *)
(*                                                                         *)
(* A Python str is a sequence of one-character strings.  Characters        *)
(* outside ASCII are written by code point: "U+00E9" is e-acute (a         *)
(* lowercase letter), "U+212A" is the Kelvin sign (an uppercase letter     *)
(* whose str.lower() is the ASCII "k"), "U+0060" is the ASCII grave accent *)
(* of string.punctuation.  " " and "\n" are characters of no class.        *)
(*                                                                         *)
(* A float holding length * log2(charset_size) is the record               *)
(* [length, charset_size]; 2 ** entropy is then charset_size ^ length,     *)
(* computed exactly on arbitrary-size naturals (sequences of limbs).       *)
(* Rounding of float arithmetic is not modelled; float overflow is.        *)
(***************************************************************************)
EXTENDS Integers, Sequences, FiniteSets, TLC

VARIABLES
    password,     \* argument of check_password_strength / check_common_breach
    result,       \* what check_password_strength returned (or raised)
    breached,     \* what check_common_breach returned
    prev,         \* the previous analysis, before characters were appended
    gen_args,     \* arguments of generate_password
    rng,          \* the outcome stream of the secure random source
    generated,    \* what generate_password returned
    entropy,      \* argument of estimate_crack_time
    crack_time    \* what estimate_crack_time returned (or raised)

vars == <<password, result, breached, prev, gen_args, rng, generated,
          entropy, crack_time>>

---------------------------------------------------------------------------
(* Bounds of the model.                                                    *)

\* passwords are concatenations of at most MaxPieces pieces
MaxPieces == 3
\* long passwords are a four-character unit repeated up to MaxRepeat times
MaxRepeat == 40
\* generate_password is called with length -1 .. MaxGenLength
MaxGenLength == 16
\* the random source's first draw is 0 .. MaxRandStart
MaxRandStart == 93
\* successive draws differ by 0 .. MaxRandStride
MaxRandStride == 1
\* estimate_crack_time is called with 0 .. MaxEntropyBits whole bits
MaxEntropyBits == 1030
\* and with the entropy of passwords of length 1 .. MaxEntropyLength
MaxEntropyLength == 160
\* characters are appended to passwords of at most MaxBasePieces pieces
MaxBasePieces == 2

---------------------------------------------------------------------------
(* Values returned by the functions.                                       *)

Pending == [kind |-> "pending"]
None == [kind |-> "None"]
Raise(exc) == [kind |-> "raise", exc |-> exc]
Str(s) == [kind |-> "str", value |-> s]
Bool(b) == [kind |-> "bool", value |-> b]

---------------------------------------------------------------------------
(* Characters: the string module's constants and the str predicates.       *)

ascii_lowercase == <<"a", "b", "c", "d", "e", "f", "g", "h", "i", "j", "k", "l", "m", "n", "o", "p", "q", "r", "s", "t", "u", "v", "w", "x", "y", "z">>
ascii_uppercase == <<"A", "B", "C", "D", "E", "F", "G", "H", "I", "J", "K", "L", "M", "N", "O", "P", "Q", "R", "S", "T", "U", "V", "W", "X", "Y", "Z">>
digits == <<"0", "1", "2", "3", "4", "5", "6", "7", "8", "9">>
punctuation == <<"!", "\"", "#", "$", "%", "&", "'", "(", ")", "*", "+", ",", "-", ".", "/", ":", ";", "<", "=", ">", "?", "@", "[", "\\", "]", "^", "_", "U+0060", "{", "|", "}", "~">>

Range(s) == {s[i] : i \in 1..Len(s)}

\* c.islower()
islower(c) == c \in Range(ascii_lowercase) \cup {"U+00E9"}
\* c.isupper()
isupper(c) == c \in Range(ascii_uppercase) \cup {"U+212A"}
\* c.isdigit()
isdigit(c) == c \in Range(digits)
\* c in string.punctuation
ispunct(c) == c \in Range(punctuation)
\* ord(c) > 127
ord_above_127(c) == c \in {"U+00E9", "U+212A"}

IndexOf(c, s) == CHOOSE i \in 1..Len(s) : s[i] = c

\* str.lower() on one character
lower_char(c) ==
    IF c \in Range(ascii_uppercase) THEN ascii_lowercase[IndexOf(c, ascii_uppercase)]
    ELSE IF c = "U+212A" THEN "k"
    ELSE c

\* str.lower()
lower(s) == [i \in 1..Len(s) |-> lower_char(s[i])]

\* pattern in s
Contains(pattern, s) ==
    \E i \in 0..(Len(s) - Len(pattern)) :
        \A j \in 1..Len(pattern) : s[i + j] = pattern[j]

---------------------------------------------------------------------------
(* Naturals beyond the machine integers: little-endian sequences of limbs, *)
(* no leading zero limb; <<>> is 0.  They carry the values of the float    *)
(* expressions of estimate_crack_time.                                     *)

LimbBase == 10 ^ 6

RECURSIVE BigTrim(_)
BigTrim(x) ==
    IF Len(x) > 0 /\ x[Len(x)] = 0 THEN BigTrim(SubSeq(x, 1, Len(x) - 1)) ELSE x

\* the natural n
BigFromInt(n) ==
    BigTrim(<<n % LimbBase, (n \div LimbBase) % LimbBase, (n \div LimbBase) \div LimbBase>>)

RECURSIVE BigMulFrom(_, _, _, _)
BigMulFrom(x, m, i, carry) ==
    IF i > Len(x) THEN BigFromInt(carry)
    ELSE LET t == x[i] * m + carry
         IN  <<t % LimbBase>> \o BigMulFrom(x, m, i + 1, t \div LimbBase)

\* x * m, for 0 < m < 2000
BigMul(x, m) == BigMulFrom(x, m, 1, 0)

RECURSIVE BigDivFrom(_, _, _, _)
BigDivFrom(x, d, i, rem) ==
    IF i = 0 THEN <<>>
    ELSE LET t == rem * LimbBase + x[i]
         IN  BigDivFrom(x, d, i - 1, t % d) \o <<t \div d>>

\* floor(x / d), for 0 < d < 2000
BigDiv(x, d) == BigTrim(BigDivFrom(x, d, Len(x), 0))

RECURSIVE BigDivAll(_, _)
\* floor(x / (ds[1] * ... * ds[n])): floor(floor(x / a) / b) = floor(x / (a * b))
BigDivAll(x, ds) ==
    IF ds = <<>> THEN x ELSE BigDivAll(BigDiv(x, Head(ds)), Tail(ds))

\* x < y
BigLt(x, y) ==
    IF Len(x) # Len(y) THEN Len(x) < Len(y)
    ELSE \E i \in 1..Len(x) :
            x[i] < y[i] /\ \A j \in (i + 1)..Len(x) : x[j] = y[j]

\* the machine integer x, for x < 2000 * LimbBase
BigToInt(x) ==
    IF Len(x) = 0 THEN 0
    ELSE IF Len(x) = 1 THEN x[1]
    ELSE x[2] * LimbBase + x[1]

\* 10 ^ 24: above every number estimate_crack_time compares a float with
BigCap == <<0, 0, 0, 0, 1>>

RECURSIVE BigPowFrom(_, _, _)
\* min(acc * b ^ n, some number >= BigCap)
BigPowFrom(acc, b, n) ==
    IF n = 0 \/ ~BigLt(acc, BigCap) THEN acc
    ELSE BigPowFrom(BigMul(acc, b), b, n - 1)

\* b ^ n when that is below BigCap, else some number >= BigCap
BigPow(b, n) == BigPowFrom(<<1>>, b, n)

---------------------------------------------------------------------------
(* calculate_entropy                                                       *)

\* the float length * log2(charset_size)
Float(length, size) == [length |-> length, charset_size |-> size]
\* the int 0
Zero == Float(0, 1)

charset_size(pw) ==
      (IF \E i \in 1..Len(pw) : islower(pw[i]) THEN 26 ELSE 0)
    + (IF \E i \in 1..Len(pw) : isupper(pw[i]) THEN 26 ELSE 0)
    + (IF \E i \in 1..Len(pw) : isdigit(pw[i]) THEN 10 ELSE 0)
    + (IF \E i \in 1..Len(pw) : ispunct(pw[i]) THEN 32 ELSE 0)
    + (IF \E i \in 1..Len(pw) : ord_above_127(pw[i]) THEN 100 ELSE 0)

calculate_entropy(pw) ==
    IF charset_size(pw) = 0 THEN Zero
    ELSE Float(Len(pw), charset_size(pw))

---------------------------------------------------------------------------
(* estimate_crack_time                                                     *)

\* floor(10 ^ 6 * math.log2(c)), for the alphabet sizes calculate_entropy
\* can reach and for 1 and 2
log2_micro(c) ==
    CASE c = 1 -> 0
      [] c = 2 -> 1000000
      [] c = 10 -> 3321928
      [] c = 26 -> 4700439
      [] c = 32 -> 5000000
      [] c = 36 -> 5169925
      [] c = 42 -> 5392317
      [] c = 52 -> 5700439
      [] c = 58 -> 5857980
      [] c = 62 -> 5954196
      [] c = 68 -> 6087462
      [] c = 84 -> 6392317
      [] c = 94 -> 6554588
      [] c = 100 -> 6643856
      [] c = 110 -> 6781359
      [] c = 126 -> 6977279
      [] c = 132 -> 7044394
      [] c = 136 -> 7087462
      [] c = 142 -> 7149747
      [] c = 152 -> 7247927
      [] c = 158 -> 7303780
      [] c = 162 -> 7339850
      [] c = 168 -> 7392317
      [] c = 184 -> 7523561
      [] c = 194 -> 7599912

\* 2.0 ** 1024 is the least power of two that is no float
FloatMaxExponent == 1024

\* 2 ** entropy raises OverflowError: entropy >= 1024
pow_overflows(e) ==
    e.length * log2_micro(e.charset_size) >= FloatMaxExponent * 10 ^ 6

\* 2 ** entropy, exact below BigCap
total_combinations(e) == BigPow(e.charset_size, e.length)

\* 1e9 = 1000 * 1000 * 1000
guesses_per_second == <<1000, 1000, 1000>>

\* floor of total_combinations / (2 * guesses_per_second)
seconds_of(total) == BigDivAll(total, <<2>> \o guesses_per_second)

\* int(seconds / 31536000), 31536000 = 1000 * 144 * 219
years_of(seconds) == BigDivAll(seconds, <<1000, 144, 219>>)

\* the if / elif chain on seconds; `seconds` is the floor of the float, which
\* compares with a whole number as the float does
crack_time_of(seconds) ==
    IF BigLt(seconds, BigFromInt(1)) THEN "Less than a second"
    ELSE IF BigLt(seconds, BigFromInt(60)) THEN
        ToString(BigToInt(seconds)) \o " seconds"
    ELSE IF BigLt(seconds, BigFromInt(3600)) THEN
        ToString(BigToInt(seconds) \div 60) \o " minutes"
    ELSE IF BigLt(seconds, BigFromInt(86400)) THEN
        ToString(BigToInt(seconds) \div 3600) \o " hours"
    ELSE IF BigLt(seconds, BigFromInt(2592000)) THEN
        ToString(BigToInt(seconds) \div 86400) \o " days"
    ELSE IF BigLt(seconds, BigFromInt(31536000)) THEN
        ToString(BigToInt(seconds) \div 2592000) \o " months"
    ELSE LET years == years_of(seconds)
         IN  IF BigLt(BigFromInt(1000000), years) THEN "Millions of years"
             ELSE IF BigLt(BigFromInt(1000), years) THEN
                 ToString(BigToInt(years) \div 1000) \o "k+ years"
             ELSE ToString(BigToInt(years)) \o " years"

estimate_crack_time(e) ==
    IF pow_overflows(e) THEN Raise("OverflowError")
    ELSE Str(crack_time_of(seconds_of(total_combinations(e))))

---------------------------------------------------------------------------
(* check_password_strength                                                 *)

Max(a, b) == IF a >= b THEN a ELSE b
Min(a, b) == IF a <= b THEN a ELSE b

common_patterns ==
    << <<"1", "2", "3">>,
       <<"a", "b", "c">>,
       <<"p", "a", "s", "s", "w", "o", "r", "d">>,
       <<"q", "w", "e", "r", "t", "y">>,
       <<"1", "1", "1">>,
       <<"0", "0", "0">> >>

has_lower(pw) == \E i \in 1..Len(pw) : islower(pw[i])
has_upper(pw) == \E i \in 1..Len(pw) : isupper(pw[i])
has_digit(pw) == \E i \in 1..Len(pw) : isdigit(pw[i])
has_special(pw) == \E i \in 1..Len(pw) : ispunct(pw[i])

\* any(pattern in password.lower() for pattern in common_patterns)
has_common(pw) ==
    \E k \in 1..Len(common_patterns) : Contains(common_patterns[k], lower(pw))

\* re.search(r'(.)\1{2,}', password): without re.DOTALL, "." matches any
\* character except "\n"
has_repeat(pw) ==
    \E i \in 1..(Len(pw) - 2) :
        pw[i] # "\n" /\ pw[i + 1] = pw[i] /\ pw[i + 2] = pw[i]

\* length_delta without its 'length >= 12' branch
length_delta_no_top_tier(length) ==
    IF length >= 8 /\ length < 12 THEN 15 ELSE 0

\* length_delta with the higher reward from 8 characters on
length_delta_one_tier(length) ==
    IF length >= 8 THEN 25 ELSE 0

\* what the length check adds to score
length_delta(length) ==
    IF length >= 12 THEN 25
    ELSE IF length >= 8 THEN 15
    ELSE 0

\* the local variable score when the checks are done
score_of(pw) ==
      length_delta(Len(pw))
    + (IF has_lower(pw) THEN 10 ELSE 0)
    + (IF has_upper(pw) THEN 10 ELSE 0)
    + (IF has_digit(pw) THEN 10 ELSE 0)
    + (IF has_special(pw) THEN 15 ELSE 0)
    + (IF has_common(pw) THEN -10 ELSE 10)
    + (IF has_repeat(pw) THEN -5 ELSE 10)

\* the list feedback; the marks U+2713, U+2717 and U+26A0 that start the
\* lines are written [pass], [fail] and [warn]
feedback_of(pw) ==
    << IF Len(pw) >= 12 THEN "[pass] Excellent length (12+ characters)"
       ELSE IF Len(pw) >= 8 THEN "[pass] Good length (8+ characters)"
       ELSE "[fail] Too short (minimum 8 characters recommended)",
       IF has_lower(pw) THEN "[pass] Contains lowercase letters"
       ELSE "[fail] Missing lowercase letters",
       IF has_upper(pw) THEN "[pass] Contains uppercase letters"
       ELSE "[fail] Missing uppercase letters",
       IF has_digit(pw) THEN "[pass] Contains numbers"
       ELSE "[fail] Missing numbers",
       IF has_special(pw) THEN "[pass] Contains special characters"
       ELSE "[fail] Missing special characters",
       IF has_common(pw)
       THEN "[warn] Contains common patterns (avoid sequences like '123', 'abc', 'password')"
       ELSE "[pass] No common patterns detected",
       IF has_repeat(pw) THEN "[warn] Contains repeated characters"
       ELSE "[pass] No excessive character repetition" >>

\* the dict criteria
criteria_of(pw) ==
    [length |-> Len(pw) >= 8,
     lowercase |-> has_lower(pw),
     uppercase |-> has_upper(pw),
     numbers |-> has_digit(pw),
     special |-> has_special(pw)]

\* strength_of with > for >=
strength_of_strict(score) ==
    IF score > 75 THEN [strength |-> "Strong", color |-> "green"]
    ELSE IF score > 50 THEN [strength |-> "Medium", color |-> "orange"]
    ELSE [strength |-> "Weak", color |-> "red"]

\* strength and color, from the local variable score
strength_of(score) ==
    IF score >= 75 THEN [strength |-> "Strong", color |-> "green"]
    ELSE IF score >= 50 THEN [strength |-> "Medium", color |-> "orange"]
    ELSE [strength |-> "Weak", color |-> "red"]

\* clamped without the max(0, ...)
clamped_no_floor(score) == Min(100, score)

\* max(0, min(100, score))
clamped(score) == Max(0, Min(100, score))

check_password_strength(pw) ==
    IF pw = <<>> THEN None
    ELSE LET score == score_of(pw)
             e == calculate_entropy(pw)
             crack == estimate_crack_time(e)
         IN  IF crack.kind = "raise" THEN crack
             ELSE [kind |-> "dict",
                   score |-> clamped(score),
                   strength |-> strength_of(score).strength,
                   color |-> strength_of(score).color,
                   feedback |-> feedback_of(pw),
                   criteria |-> criteria_of(pw),
                   entropy |-> e,
                   crack_time |-> crack.value]

---------------------------------------------------------------------------
(* generate_password                                                       *)

Args(length, use_upper, use_lower, use_digits, use_special) ==
    [length |-> length, use_upper |-> use_upper, use_lower |-> use_lower,
     use_digits |-> use_digits, use_special |-> use_special]

\* charset_of falling back on letters and digits when no flag is set
charset_of_defaulting(a) ==
    IF a.use_lower \/ a.use_upper \/ a.use_digits \/ a.use_special
    THEN    (IF a.use_lower THEN ascii_lowercase ELSE <<>>)
         \o (IF a.use_upper THEN ascii_uppercase ELSE <<>>)
         \o (IF a.use_digits THEN digits ELSE <<>>)
         \o (IF a.use_special THEN punctuation ELSE <<>>)
    ELSE ascii_lowercase \o ascii_uppercase \o digits

\* charset_of with use_upper and use_lower taken for each other
charset_of_swapped(a) ==
       (IF a.use_upper THEN ascii_lowercase ELSE <<>>)
    \o (IF a.use_lower THEN ascii_uppercase ELSE <<>>)
    \o (IF a.use_digits THEN digits ELSE <<>>)
    \o (IF a.use_special THEN punctuation ELSE <<>>)

\* the local variable charset
charset_of(a) ==
       (IF a.use_lower THEN ascii_lowercase ELSE <<>>)
    \o (IF a.use_upper THEN ascii_uppercase ELSE <<>>)
    \o (IF a.use_digits THEN digits ELSE <<>>)
    \o (IF a.use_special THEN punctuation ELSE <<>>)

\* the i-th call of secrets.choice(charset): the random source yields the
\* numbers r.start, r.start + r.stride, ... and choice reduces them to an index
choice(charset, r, i) == charset[((r.start + i * r.stride) % Len(charset)) + 1]

\* the number of elements of range(length)
range_len(length) == Max(0, length)

generate_password(a, r) ==
    LET charset == charset_of(a)
    IN  IF charset = <<>> THEN None
        ELSE Str([i \in 1..range_len(a.length) |-> choice(charset, r, i - 1)])

---------------------------------------------------------------------------
(* check_common_breach                                                     *)

common_breached ==
    { <<"p", "a", "s", "s", "w", "o", "r", "d">>,
      <<"1", "2", "3", "4", "5", "6">>,
      <<"1", "2", "3", "4", "5", "6", "7", "8">>,
      <<"q", "w", "e", "r", "t", "y">>,
      <<"a", "b", "c", "1", "2", "3">>,
      <<"m", "o", "n", "k", "e", "y">>,
      <<"1", "2", "3", "4", "5", "6", "7">>,
      <<"l", "e", "t", "m", "e", "i", "n">>,
      <<"t", "r", "u", "s", "t", "n", "o", "1">>,
      <<"d", "r", "a", "g", "o", "n">>,
      <<"b", "a", "s", "e", "b", "a", "l", "l">>,
      <<"i", "l", "o", "v", "e", "y", "o", "u">>,
      <<"m", "a", "s", "t", "e", "r">>,
      <<"s", "u", "n", "s", "h", "i", "n", "e">>,
      <<"a", "s", "h", "l", "e", "y">>,
      <<"b", "a", "i", "l", "e", "y">>,
      <<"p", "a", "s", "s", "w", "0", "r", "d">>,
      <<"s", "h", "a", "d", "o", "w">>,
      <<"1", "2", "3", "1", "2", "3">>,
      <<"6", "5", "4", "3", "2", "1">>,
      <<"s", "u", "p", "e", "r", "m", "a", "n">>,
      <<"q", "a", "z", "w", "s", "x">>,
      <<"m", "i", "c", "h", "a", "e", "l">>,
      <<"f", "o", "o", "t", "b", "a", "l", "l">>,
      <<"p", "a", "s", "s", "w", "o", "r", "d", "1">> }

\* check_common_breach without the .lower()
check_common_breach_case_sensitive(pw) == Bool(pw \in common_breached)

check_common_breach(pw) == Bool(lower(pw) \in common_breached)

---------------------------------------------------------------------------
(* The arguments the functions are called with.                            *)

Pieces ==
    { <<"a">>, <<"A">>, <<"1">>, <<"!">>, <<" ">>, <<"\n">>,
      <<"U+00E9">>, <<"U+212A">>, <<"b", "c">>,
      <<"p", "a", "s", "s", "w", "o", "r", "d">>,
      <<"X", "k", "9", "#", "m", "Q", "2", "!", "v", "L">>,
      <<"h", "u", "n", "t", "e", "r", "T", "w", "o", "X", "y">> }

RECURSIVE Concats(_, _)
\* the concatenations of at most n elements of ps
Concats(ps, n) ==
    IF n = 0 THEN {<<>>}
    ELSE LET shorter == Concats(ps, n - 1)
         IN  shorter \cup {p \o q : p \in shorter, q \in ps}

\* the characters str.lower() maps to c
CaseForms(c) ==
    {c} \cup {d \in Range(ascii_uppercase) \cup {"U+212A"} : lower_char(d) = c}

RECURSIVE CaseVariants(_, _)
\* the strings that differ from the first n characters of s in case only
CaseVariants(s, n) ==
    IF n = 0 THEN {<<>>}
    ELSE {v \o <<d>> : v \in CaseVariants(s, n - 1), d \in CaseForms(s[n])}

\* u repeated k times
Repeat(u, k) == [i \in 1..(k * Len(u)) |-> u[((i - 1) % Len(u)) + 1]]

LongPasswords == {Repeat(<<"a", "A", "1", "!">>, k) : k \in 1..MaxRepeat}

Passwords ==
    Concats(Pieces, MaxPieces)
        \cup UNION {CaseVariants(s, Len(s)) : s \in common_breached}
        \cup LongPasswords

---------------------------------------------------------------------------
(* Specification Spec: check_password_strength and check_common_breach are *)
(* called on a password, as the Check Password tab does (lines 225-246).   *)

Init ==
    /\ password \in Passwords
    /\ result = Pending
    /\ breached = Pending
    /\ prev = None
    /\ gen_args = None
    /\ rng = None
    /\ generated = Pending
    /\ entropy = Zero
    /\ crack_time = Pending

CheckPasswordStrength ==
    /\ result = Pending
    /\ result' = check_password_strength(password)
    /\ UNCHANGED <<password, breached, prev, gen_args, rng, generated, entropy, crack_time>>

CheckCommonBreach ==
    /\ breached = Pending
    /\ breached' = check_common_breach(password)
    /\ UNCHANGED <<password, result, prev, gen_args, rng, generated, entropy, crack_time>>

Next == CheckPasswordStrength \/ CheckCommonBreach

Spec == Init /\ [][Next]_vars

---------------------------------------------------------------------------
(* Specification of estimate_crack_time alone.                             *)

\* whole numbers of bits, and what calculate_entropy returns for three alphabets
Entropies ==
    {Float(n, 2) : n \in 0..MaxEntropyBits}
        \cup {Float(n, b) : n \in 1..MaxEntropyLength, b \in {26, 94, 194}}

Idle ==
    /\ password = <<>>
    /\ result = Pending
    /\ breached = Pending
    /\ prev = None
    /\ gen_args = None
    /\ rng = None
    /\ generated = Pending

InitCrack ==
    /\ entropy \in Entropies
    /\ crack_time = Pending
    /\ Idle

EstimateCrackTime ==
    /\ crack_time = Pending
    /\ crack_time' = estimate_crack_time(entropy)
    /\ UNCHANGED <<password, result, breached, prev, gen_args, rng, generated, entropy>>

NextCrack == EstimateCrackTime

SpecCrack == InitCrack /\ [][NextCrack]_vars

---------------------------------------------------------------------------
(* Specification SpecGen: generate_password is called once.                *)

GenArgs ==
    {Args(n, u, l, d, sp) :
        n \in (-1)..MaxGenLength, u \in BOOLEAN, l \in BOOLEAN,
        d \in BOOLEAN, sp \in BOOLEAN}

Rngs == {[start |-> a, stride |-> b] : a \in 0..MaxRandStart, b \in 0..MaxRandStride}

InitGen ==
    /\ gen_args \in GenArgs
    /\ rng \in Rngs
    /\ generated = Pending
    /\ password = <<>>
    /\ result = Pending
    /\ breached = Pending
    /\ prev = None
    /\ entropy = Zero
    /\ crack_time = Pending

GeneratePassword ==
    /\ generated = Pending
    /\ generated' = generate_password(gen_args, rng)
    /\ UNCHANGED <<password, result, breached, prev, gen_args, rng, entropy, crack_time>>

NextGen == GeneratePassword

SpecGen == InitGen /\ [][NextGen]_vars

---------------------------------------------------------------------------
(* Specification SpecAppend: a password is analysed, characters of a class *)
(* it lacks are appended to it, and the result is analysed again.          *)

BasePieces ==
    { <<"A", "B">>, <<"a", "b">>, <<"1", "2">>, <<"#">>, <<"1", "1">>,
      <<"h", "u", "n", "t", "e", "r", "T", "w", "o", "X", "y">> }

BasePasswords == Concats(BasePieces, MaxBasePieces) \ {<<>>}

Suffixes ==
    { <<"c">>, <<"d", "d", "d">>, <<"C">>, <<"Z", "Z", "Z">>,
      <<"3">>, <<"1", "2", "3">>, <<"!">>, <<"!", "!", "!">> }

\* s is made of characters of one class, which pw lacks
NewClass(s, pw) ==
    \/ (\A i \in 1..Len(s) : islower(s[i])) /\ ~has_lower(pw)
    \/ (\A i \in 1..Len(s) : isupper(s[i])) /\ ~has_upper(pw)
    \/ (\A i \in 1..Len(s) : isdigit(s[i])) /\ ~has_digit(pw)
    \/ (\A i \in 1..Len(s) : ispunct(s[i])) /\ ~has_special(pw)

InitAppend ==
    /\ password \in BasePasswords
    /\ result = Pending
    /\ prev = None
    /\ breached = Pending
    /\ gen_args = None
    /\ rng = None
    /\ generated = Pending
    /\ entropy = Zero
    /\ crack_time = Pending

AppendCharacters(s) ==
    /\ prev = None
    /\ result # Pending
    /\ NewClass(s, password)
    /\ prev' = [kind |-> "prev", password |-> password, result |-> result]
    /\ password' = password \o s
    /\ result' = Pending
    /\ UNCHANGED <<breached, gen_args, rng, generated, entropy, crack_time>>

NextAppend == CheckPasswordStrength \/ \E s \in Suffixes : AppendCharacters(s)

SpecAppend == InitAppend /\ [][NextAppend]_vars

---------------------------------------------------------------------------
(* The claims.                                                             *)

\* C1: for every non-empty password, the score check_password_strength
\* returns is an integer from 0 to 100.
ScoreInRange ==
    result.kind = "dict" => result.score \in 0..100

\* C1 is exercised: a score below 0 was clamped to 0
ScoreClampedReached ==
    /\ result.kind = "dict"
    /\ score_of(password) < 0
    /\ result.score = 0

\* C2: check_password_strength returns None on the empty string and a
\* complete result, without raising, on every other password.
AlwaysReturnsResult ==
    result # Pending =>
        IF password = <<>> THEN result = None
        ELSE /\ result.kind = "dict"
             /\ {"score", "strength", "feedback", "criteria", "entropy", "crack_time"}
                    \subseteq DOMAIN result

\* C3: appending characters of a class the password lacks never decreases
\* the score.
AppendNewClassNeverDecreases ==
    (prev.kind = "prev" /\ result.kind = "dict" /\ prev.result.kind = "dict")
        => result.score >= prev.result.score

\* the common-pattern and repetition checks report the same for both passwords
OtherChecksFixed ==
    /\ result.feedback[6] = prev.result.feedback[6]
    /\ result.feedback[7] = prev.result.feedback[7]

\* C3 (amended): appending characters of a class the password lacks never
\* decreases the score when the common-pattern check and the repetition
\* check report the same for the longer password as for the shorter.
AppendNewClassOtherChecksFixed ==
    (/\ prev.kind = "prev"
     /\ result.kind = "dict"
     /\ prev.result.kind = "dict"
     /\ OtherChecksFixed)
        => result.score >= prev.result.score

\* C3 (amended) is exercised: an append with the other checks unchanged
\* raised the score
AppendRaisedScoreReached ==
    /\ prev.kind = "prev"
    /\ result.kind = "dict"
    /\ prev.result.kind = "dict"
    /\ OtherChecksFixed
    /\ result.score > prev.result.score

\* C4: the strength returned is Strong iff the returned (clamped) score is
\* at least 75, Medium iff it is from 50 to 74, Weak iff it is below 50.
StrengthFromReturnedScore ==
    result.kind = "dict" =>
        /\ result.strength = "Strong" <=> result.score >= 75
        /\ result.strength = "Medium" <=> (50 <= result.score /\ result.score < 75)
        /\ result.strength = "Weak" <=> result.score < 50

\* C4 is exercised: the returned score differs from the unclamped one
StrengthOfClampedReached ==
    /\ result.kind = "dict"
    /\ result.score # score_of(password)
    /\ result.strength = "Weak"

NoFlag(a) == ~(a.use_upper \/ a.use_lower \/ a.use_digits \/ a.use_special)

\* C5: with all four flags false generate_password returns None, whatever
\* the length.
NoClassGivesNone ==
    (generated # Pending /\ NoFlag(gen_args)) => generated = None

\* C5 is exercised: length 10, no flag
NoClassReached ==
    /\ generated # Pending
    /\ NoFlag(gen_args)
    /\ gen_args.length = 10

\* the characters of the classes the flags select
SelectedChars(a) ==
    (IF a.use_lower THEN Range(ascii_lowercase) ELSE {})
        \cup (IF a.use_upper THEN Range(ascii_uppercase) ELSE {})
        \cup (IF a.use_digits THEN Range(digits) ELSE {})
        \cup (IF a.use_special THEN Range(punctuation) ELSE {})

\* C6: for length n >= 0 and at least one flag true, generate_password
\* returns a string of exactly n characters, each of a selected class.
GeneratedFromSelectedClasses ==
    (generated # Pending /\ gen_args.length >= 0 /\ ~NoFlag(gen_args)) =>
        /\ generated.kind = "str"
        /\ Len(generated.value) = gen_args.length
        /\ \A i \in 1..Len(generated.value) :
                generated.value[i] \in SelectedChars(gen_args)

\* C6 is exercised: length 16, all classes
SixteenFromAllClassesReached ==
    /\ generated.kind = "str"
    /\ gen_args = Args(16, TRUE, TRUE, TRUE, TRUE)
    /\ Len(generated.value) = 16

\* p lower-cased, character by character, is the entry e
LowerCasedIs(p, e) ==
    Len(p) = Len(e) /\ \A i \in 1..Len(p) : lower_char(p[i]) = e[i]

CrackTimeAlwaysDefined ==
    crack_time # Pending =>
        /\ crack_time.kind = "str"
        /\ crack_time.value # ""
        /\ entropy.length = 0 => crack_time.value = "Less than a second"

\* some character occurs three times in a row
RunOfThree(pw) ==
    \E i \in 1..(Len(pw) - 2) : pw[i + 1] = pw[i] /\ pw[i + 2] = pw[i]

\* the sum of the seven rule deltas
RuleDeltas(pw) ==
      (IF Len(pw) >= 12 THEN 25 ELSE IF Len(pw) >= 8 THEN 15 ELSE 0)
    + (IF \E c \in Range(pw) : islower(c) THEN 10 ELSE 0)
    + (IF \E c \in Range(pw) : isupper(c) THEN 10 ELSE 0)
    + (IF \E c \in Range(pw) : isdigit(c) THEN 10 ELSE 0)
    + (IF \E c \in Range(pw) : ispunct(c) THEN 15 ELSE 0)
    + (IF \E k \in 1..Len(common_patterns) : Contains(common_patterns[k], lower(pw))
       THEN -10 ELSE 10)
    + (IF RunOfThree(pw) THEN -5 ELSE 10)

\* C9: the returned score is max(0, min(100, S)), S the sum of the seven
\* rule deltas, the last of them -5 when a character occurs three or more
\* times in a row and +10 otherwise.
ScoreIsSumOfRuleDeltas ==
    result.kind = "dict" =>
        result.score = Max(0, Min(100, RuleDeltas(password)))

\* C10: a password check_common_breach reports is never rated Strong by
\* check_password_strength: its score is below 75.
BreachedNeverStrong ==
    (breached = Bool(TRUE) /\ result.kind = "dict") =>
        (result.strength # "Strong" /\ result.score < 75)

\* C10 is exercised: a reported password with the highest score such a
\* password gets
BreachedMediumReached ==
    /\ breached = Bool(TRUE)
    /\ result.kind = "dict"
    /\ result.score = 65
    /\ result.strength = "Medium"

=============================================================================
